---- MODULE Spec2Model ----
(***************************************************************************)
(* The two Flask programs of the repository as one state machine.           *)
(*                                                                         *)
(*   src/src/alive.py    GET / -> node_status(): reads /opt/nodes.txt and  *)
(*                       pings every host listed in it                     *)
(*   src/src/service.py  GET / -> index(): echoes the peer, the clock,     *)
(*                       the address resolved at import and a random int   *)
(*                                                                         *)
(* A behaviour is one process run of one of the two programs (variable     *)
(* service).  Text is a sequence of one-character strings, so that strip,  *)
(* join, str() and strftime are computed and not assumed.  Python values   *)
(* that may be None are records tagged with their type (field t).          *)
(***************************************************************************)
EXTENDS Integers, Sequences, FiniteSets, TLC

VARIABLES
    service,     \* which program this process runs: "alive" or "service"
    file,        \* /opt/nodes.txt: [exists, lines], lines as the file iterator yields them
    pc,          \* alive.py: position of each node_status() call
    nodes,       \* alive.py: local nodes of each call
    status,      \* alive.py: local status of each call
    idx,         \* alive.py: position of the for loop's iterator over nodes
    resp,        \* alive.py: HTTP response of each call, [code, body]
    existed,     \* history: what os.path.exists answered to the call
    seen,        \* history: the file as the call's open() found it
    pings,       \* history: the ping() calls of the call, [dest, timeout, result]
    sysAddr,     \* the machine's hostname and the address it resolves to now
    h_name,      \* service.py: global h_name
    IP_address,  \* service.py: global IP_address
    boot,        \* history: [name, ip] as resolved when service.py was imported
    epc,         \* service.py: position of each index() call
    loc,         \* service.py: locals of each call
    env,         \* history: the peer, clock and random draw the call was given
    eresp        \* service.py: HTTP response of each call, [code, body]

aliveVars == <<file, pc, nodes, status, idx, resp, existed, seen, pings>>
echoVars == <<sysAddr, h_name, IP_address, boot, epc, loc, env, eresp>>
vars == <<service, aliveVars, echoVars>>

(***************************************************************************)
(* Bounds and input samples                                                *)
(***************************************************************************)
\* most lines a host-list file holds
MaxLines == 2
\* most lines a host-list file holds when two requests run concurrently
ConcMaxLines == 1

\* the request slots: calls of the handler that may be in flight together
Slots == {1, 2}
\* one request at a time
Solo == {1}

\* lines of the host-list file as iterating the open file yields them:
\* an empty line, a whitespace-only line, a host, a host with blanks around it
SampleLines ==
    { <<"\n">>,
      <<" ", "\t", "\n">>,
      <<"a", "\n">>,
      <<" ", "b", " ", "\n">> }

RECURSIVE SeqsUpTo(_, _)
SeqsUpTo(S, n) ==
    IF n = 0 THEN {<<>>}
    ELSE LET shorter == SeqsUpTo(S, n - 1)
         IN  shorter \cup {Append(s, x) : s \in shorter, x \in S}

Files == SeqsUpTo(SampleLines, MaxLines)
\* the lines of the files two concurrent requests are run against
ConcLines == { <<"a", "\n">>, <<" ", "b", " ", "\n">> }
ConcFiles == SeqsUpTo(ConcLines, ConcMaxLines)

(***************************************************************************)
(* Python values and text                                                  *)
(***************************************************************************)
PyNone == [t |-> "None"]
PyFalse == [t |-> "bool", v |-> FALSE]
PyFloat == [t |-> "float"]
PyInt(n) == [t |-> "int", v |-> n]
PyStr(s) == [t |-> "str", v |-> s]

Digits == <<"0", "1", "2", "3", "4", "5", "6", "7", "8", "9">>

RECURSIVE IntToText(_)
IntToText(n) ==
    IF n < 10 THEN <<Digits[n + 1]>>
    ELSE Append(IntToText(n \div 10), Digits[(n % 10) + 1])

\* str(x), also what an f-string field renders
str(x) ==
    CASE x.t = "None" -> <<"N", "o", "n", "e">>
      [] x.t = "int" -> IntToText(x.v)
      [] x.t = "str" -> x.v

\* the characters str.strip() removes
Whitespace == {" ", "\t", "\n", "\r"}

RECURSIVE lstrip(_)
lstrip(s) ==
    IF s # <<>> /\ Head(s) \in Whitespace THEN lstrip(Tail(s)) ELSE s

RECURSIVE rstrip(_)
rstrip(s) ==
    IF s # <<>> /\ s[Len(s)] \in Whitespace
    THEN rstrip(SubSeq(s, 1, Len(s) - 1))
    ELSE s

\* a strip that forgets the right end
strip_left_only(s) == lstrip(s)

strip(s) == rstrip(lstrip(s))

RECURSIVE join(_, _)
join(sep, xs) ==
    IF xs = <<>> THEN <<>>
    ELSE IF Len(xs) = 1 THEN xs[1]
    ELSE xs[1] \o sep \o join(sep, Tail(xs))

(***************************************************************************)
(* alive.py                                                                *)
(***************************************************************************)
PING_TIMEOUT == 1

ALIVE == <<":", "A", "L", "I", "V", "E">>
DOWN == <<":", "D", "O", "W", "N">>
NL == <<"\n">>

NOT_FOUND ==
    <<"n", "o", "d", "e", "s", ".", "t", "x", "t", " ",
      "n", "o", "t", " ", "f", "o", "u", "n", "d">>

\* Flask's answer to an exception the view does not handle
INTERNAL_SERVER_ERROR ==
    <<"I", "n", "t", "e", "r", "n", "a", "l", " ",
      "S", "e", "r", "v", "e", "r", " ", "E", "r", "r", "o", "r">>

NoResponse == [code |-> 0, body |-> <<>>]
NoFile == [exists |-> FALSE, lines |-> <<>>]

\* what ping3.ping() returns: the delay, None on timeout, False on an error
\* (unknown host, destination unreachable, ...)
PingResults == {PyFloat, PyNone, PyFalse}

\* an existence check that always succeeds
path_exists_always == TRUE

\* os.path.exists(NODES_FILE)
path_exists == file.exists

\* a host list kept from the first read of any call and served from then on
open_cached(r) ==
    LET earlier == {q \in Slots \ {r} : seen[q].exists}
    IN  IF earlier = {} THEN file.lines
        ELSE seen[CHOOSE q \in earlier : TRUE].lines

\* the lines open(NODES_FILE) yields
open_NODES_FILE(r) == file.lines

\* [line.strip() for line in f if line.strip()]
RECURSIVE ReadNodes(_)
ReadNodes(f) ==
    IF f = <<>> THEN <<>>
    ELSE IF strip(Head(f)) # <<>>
         THEN <<strip(Head(f))>> \o ReadNodes(Tail(f))
         ELSE ReadNodes(Tail(f))

\* response is not None
is_alive(response) == response.t # "None"

\* f"{node}:ALIVE" or f"{node}:DOWN"
status_line(node, response) ==
    IF is_alive(response) THEN node \o ALIVE ELSE node \o DOWN

\* status.insert(0, line)
status_prepend(r, line) == [status EXCEPT ![r] = <<line>> \o @]

\* status as one module-level list that every call appends to
status_append_shared(r, line) == [q \in Slots |-> Append(status[q], line)]

\* status.append(line) of call r
status_append(r, line) == [status EXCEPT ![r] = Append(@, line)]

\* a ping that is tried again when it timed out
ping_call_retry(node, response) ==
    LET call == [dest |-> node, timeout |-> PING_TIMEOUT, result |-> response]
    IN  IF response.t = "None" THEN <<call, call>> ELSE <<call>>

\* the ping() call of one loop iteration
ping_call(node, response) ==
    <<[dest |-> node, timeout |-> PING_TIMEOUT, result |-> response]>>

\* '\n'.join(status) + '\n'
body_of(st) == join(NL, st) \o NL

\* lines 11-14: the existence check, the 500 answer, status = []
node_status_enter(r) ==
    /\ service = "alive"
    /\ pc[r] \in {"idle", "done"}
    /\ existed' = [existed EXCEPT ![r] = file.exists]
    /\ nodes' = [nodes EXCEPT ![r] = <<>>]
    /\ status' = [status EXCEPT ![r] = <<>>]
    /\ idx' = [idx EXCEPT ![r] = 0]
    /\ pings' = [pings EXCEPT ![r] = <<>>]
    /\ IF ~path_exists
       THEN /\ pc' = [pc EXCEPT ![r] = "done"]
            /\ resp' = [resp EXCEPT ![r] = [code |-> 500, body |-> NOT_FOUND]]
       ELSE /\ pc' = [pc EXCEPT ![r] = "open"]
            /\ resp' = [resp EXCEPT ![r] = NoResponse]
    /\ UNCHANGED <<service, file, seen, echoVars>>

\* lines 15-16: open() raises FileNotFoundError when the file is gone, which
\* the view does not handle; otherwise the list comprehension over the file
node_status_open(r) ==
    /\ service = "alive"
    /\ pc[r] = "open"
    /\ seen' = [seen EXCEPT ![r] = file]
    /\ IF ~file.exists
       THEN /\ pc' = [pc EXCEPT ![r] = "done"]
            /\ resp' = [resp EXCEPT ![r] =
                          [code |-> 500, body |-> INTERNAL_SERVER_ERROR]]
            /\ UNCHANGED nodes
       ELSE /\ pc' = [pc EXCEPT ![r] = "loop"]
            /\ nodes' = [nodes EXCEPT ![r] = ReadNodes(open_NODES_FILE(r))]
            /\ UNCHANGED resp
    /\ UNCHANGED <<service, file, status, idx, existed, pings, echoVars>>

\* lines 18-23: one iteration of the loop, ping() returning response
node_status_ping(r, response) ==
    /\ service = "alive"
    /\ pc[r] = "loop"
    /\ idx[r] < Len(nodes[r])
    /\ LET node == nodes[r][idx[r] + 1]
       IN  /\ pings' = [pings EXCEPT ![r] = @ \o ping_call(node, response)]
           /\ status' = status_append(r, status_line(node, response))
    /\ idx' = [idx EXCEPT ![r] = @ + 1]
    /\ UNCHANGED <<service, file, pc, nodes, resp, existed, seen, echoVars>>

\* line 25: the loop is exhausted, the view returns
node_status_return(r) ==
    /\ service = "alive"
    /\ pc[r] = "loop"
    /\ idx[r] >= Len(nodes[r])
    /\ pc' = [pc EXCEPT ![r] = "done"]
    /\ resp' = [resp EXCEPT ![r] = [code |-> 200, body |-> body_of(status[r])]]
    /\ UNCHANGED <<service, file, nodes, status, idx, existed, seen, pings,
                   echoVars>>

\* another process creates /opt/nodes.txt or empties it
TruncateFile ==
    /\ service = "alive"
    /\ file # [exists |-> TRUE, lines |-> <<>>]
    /\ file' = [exists |-> TRUE, lines |-> <<>>]
    /\ UNCHANGED <<service, pc, nodes, status, idx, resp, existed, seen, pings,
                   echoVars>>

\* another process appends a line to /opt/nodes.txt, which holds fewer than max
AppendLine(line, max) ==
    /\ service = "alive"
    /\ file.exists
    /\ Len(file.lines) < max
    /\ file' = [file EXCEPT !.lines = Append(@, line)]
    /\ UNCHANGED <<service, pc, nodes, status, idx, resp, existed, seen, pings,
                   echoVars>>

\* another process removes /opt/nodes.txt
DeleteFile ==
    /\ service = "alive"
    /\ file.exists
    /\ file' = NoFile
    /\ UNCHANGED <<service, pc, nodes, status, idx, resp, existed, seen, pings,
                   echoVars>>

(***************************************************************************)
(* service.py                                                              *)
(***************************************************************************)
RandLo == 0
RandHi == 100

\* a draw that may exceed the upper end
randint_past_end == RandLo..(RandHi + 1)

\* random.randint(0,100): both ends included
random_randint == RandLo..RandHi

\* the machine's hostname, and the addresses it may resolve to over time
HostName == <<"w", "e", "b", "0", "1">>
Addresses ==
    { <<"1", "0", ".", "1", ".", "2", ".", "3">>,
      <<"1", "0", ".", "1", ".", "2", ".", "4">> }

\* the address the hostname resolves to when two concurrent request streams start
ConcBootAddresses == { <<"1", "0", ".", "1", ".", "2", ".", "3">> }

PeerAddr == <<"2", "0", "3", ".", "0", ".", "1", "1", "3", ".", "5">>
\* request.remote_addr and environ.get('REMOTE_PORT'): either may be missing
Peers ==
    { [addr |-> PyStr(PeerAddr), port |-> PyInt(54321)],
      [addr |-> PyStr(PeerAddr), port |-> PyNone],
      [addr |-> PyNone, port |-> PyInt(80)] }
ConcPeers == { [addr |-> PyStr(PeerAddr), port |-> PyInt(54321)] }

\* time.localtime() when the request is served
Clocks ==
    { [h |-> 14, m |-> 5, s |-> 9],
      [h |-> 0, m |-> 0, s |-> 0],
      [h |-> 23, m |-> 59, s |-> 59] }
ConcClocks == { [h |-> 14, m |-> 5, s |-> 9] }

\* %H, %M, %S: two digits, zero padded
Pad2(n) == <<Digits[(n \div 10) + 1], Digits[(n % 10) + 1]>>

\* time.strftime("%H:%M:%S")
strftime(clock) ==
    Pad2(clock.h) \o <<":">> \o Pad2(clock.m) \o <<":">> \o Pad2(clock.s)

NoAddr == [name |-> <<>>, ip |-> <<>>]
NoLocals ==
    [host |-> <<>>, client_ip |-> PyNone, client_port |-> <<>>,
     Time |-> <<>>, rand |-> <<>>]
NoEnv ==
    [peer |-> [addr |-> PyNone, port |-> PyNone],
     clock |-> [h |-> 0, m |-> 0, s |-> 0], draw |-> 0]

\* the address resolved anew for the request
index_host_resolved == sysAddr.ip

\* host = IP_address
index_host == IP_address

\* f"{Time} {client_ip}:{client_port} -- {host} ({h_name}) {rand}\n"
echo_line(l) ==
    l.Time \o <<" ">> \o str(l.client_ip) \o <<":">> \o l.client_port
        \o <<" ", "-", "-", " ">> \o l.host
        \o <<" ", "(">> \o h_name \o <<")", " ">> \o l.rand \o NL

\* the locals of call r after lines 13-16
index_locals(r, peer, clock) ==
    [loc EXCEPT ![r] =
        [host |-> index_host,
         client_ip |-> peer.addr,
         client_port |-> str(peer.port),
         Time |-> strftime(clock),
         rand |-> <<>>]]

\* lines 13-16: host, client_ip, client_port, Time
index_begin(r, peer, clock) ==
    /\ service = "service"
    /\ epc[r] \in {"idle", "done"}
    /\ epc' = [epc EXCEPT ![r] = "rand"]
    /\ loc' = index_locals(r, peer, clock)
    /\ env' = [env EXCEPT ![r] = [peer |-> peer, clock |-> clock, draw |-> 0]]
    /\ eresp' = [eresp EXCEPT ![r] = NoResponse]
    /\ UNCHANGED <<service, aliveVars, sysAddr, h_name, IP_address, boot>>

\* line 17: rand = str(random.randint(0,100)), the generator giving draw
index_rand(r, draw) ==
    /\ service = "service"
    /\ epc[r] = "rand"
    /\ epc' = [epc EXCEPT ![r] = "fmt"]
    /\ loc' = [loc EXCEPT ![r].rand = str(PyInt(draw))]
    /\ env' = [env EXCEPT ![r].draw = draw]
    /\ UNCHANGED <<service, aliveVars, sysAddr, h_name, IP_address, boot, eresp>>

\* line 18: the f-string, returned with Flask's default status
index_return(r) ==
    /\ service = "service"
    /\ epc[r] = "fmt"
    /\ epc' = [epc EXCEPT ![r] = "done"]
    /\ eresp' = [eresp EXCEPT ![r] = [code |-> 200, body |-> echo_line(loc[r])]]
    /\ UNCHANGED <<service, aliveVars, sysAddr, h_name, IP_address, boot, loc, env>>

\* the machine's address changes while the process runs
NetworkChange(ip) ==
    /\ service = "service"
    /\ sysAddr.ip # ip
    /\ sysAddr' = [sysAddr EXCEPT !.ip = ip]
    /\ UNCHANGED <<service, aliveVars, h_name, IP_address, boot, epc, loc, env,
                   eresp>>

(***************************************************************************)
(* Specifications                                                          *)
(***************************************************************************)
\* the state after the program's module is imported: the globals of lines 6-9
InitOver(F, A) ==
    /\ service \in {"alive", "service"}
    /\ file \in IF service = "alive"
                THEN {NoFile} \cup {[exists |-> TRUE, lines |-> c] : c \in F}
                ELSE {NoFile}
    /\ pc = [r \in Slots |-> "idle"]
    /\ nodes = [r \in Slots |-> <<>>]
    /\ status = [r \in Slots |-> <<>>]
    /\ idx = [r \in Slots |-> 0]
    /\ resp = [r \in Slots |-> NoResponse]
    /\ existed = [r \in Slots |-> FALSE]
    /\ seen = [r \in Slots |-> NoFile]
    /\ pings = [r \in Slots |-> <<>>]
    /\ sysAddr \in IF service = "service"
                   THEN {[name |-> HostName, ip |-> a] : a \in A}
                   ELSE {NoAddr}
    /\ h_name = sysAddr.name
    /\ IP_address = sysAddr.ip
    /\ boot = sysAddr
    /\ epc = [r \in Slots |-> "idle"]
    /\ loc = [r \in Slots |-> NoLocals]
    /\ env = [r \in Slots |-> NoEnv]
    /\ eresp = [r \in Slots |-> NoResponse]

Init == InitOver(Files, Addresses)

\* one request at a time, against every file and every request context
Next ==
    \/ \E r \in Solo : node_status_enter(r)
    \/ \E r \in Solo : node_status_open(r)
    \/ \E r \in Solo, response \in PingResults : node_status_ping(r, response)
    \/ \E r \in Solo : node_status_return(r)
    \/ TruncateFile
    \/ \E line \in SampleLines : AppendLine(line, MaxLines)
    \/ DeleteFile
    \/ \E r \in Solo, peer \in Peers, clock \in Clocks : index_begin(r, peer, clock)
    \/ \E r \in Solo, draw \in random_randint : index_rand(r, draw)
    \/ \E r \in Solo : index_return(r)
    \/ \E ip \in Addresses : NetworkChange(ip)

Spec == Init /\ [][Next]_vars

InitConc == InitOver(ConcFiles, ConcBootAddresses)

\* two requests in flight, their steps interleaved in every way
NextConc ==
    \/ \E r \in Slots : node_status_enter(r)
    \/ \E r \in Slots : node_status_open(r)
    \/ \E r \in Slots, response \in PingResults : node_status_ping(r, response)
    \/ \E r \in Slots : node_status_return(r)
    \/ TruncateFile
    \/ \E line \in ConcLines : AppendLine(line, ConcMaxLines)
    \/ DeleteFile
    \/ \E r \in Slots, peer \in ConcPeers, clock \in ConcClocks :
          index_begin(r, peer, clock)
    \/ \E r \in Slots, draw \in random_randint : index_rand(r, draw)
    \/ \E r \in Slots : index_return(r)
    \/ \E ip \in Addresses : NetworkChange(ip)

SpecConc == InitConc /\ [][NextConc]_vars

(***************************************************************************)
(* What the claims speak of, stated on the text itself                     *)
(***************************************************************************)
Least(S) == CHOOSE x \in S : \A y \in S : x <= y
Greatest(S) == CHOOSE x \in S : \A y \in S : x >= y

Blank == {" ", "\t", "\n", "\r"}
IsBlankLine(l) == \A i \in 1..Len(l) : l[i] \in Blank

\* a non-blank line without the whitespace around it
Trimmed(l) ==
    LET inked == {i \in 1..Len(l) : l[i] \notin Blank}
    IN  SubSeq(l, Least(inked), Greatest(inked))

\* h1..hN: the non-blank lines of a file, trimmed, in the file's order
HostsOf(lines) ==
    LET inked == SelectSeq(lines, LAMBDA l : ~IsBlankLine(l))
    IN  [i \in 1..Len(inked) |-> Trimmed(inked[i])]

\* the pieces of s between the occurrences of character c
RECURSIVE SplitOn(_, _)
SplitOn(s, c) ==
    LET at == {i \in 1..Len(s) : s[i] = c}
    IN  IF at = {} THEN <<s>>
        ELSE <<SubSeq(s, 1, Least(at) - 1)>>
                 \o SplitOn(SubSeq(s, Least(at) + 1, Len(s)), c)

\* the lines of a text: each ends at a newline, the last one perhaps at the end
TextLines(b) ==
    IF b = <<>> THEN <<>>
    ELSE IF b[Len(b)] = "\n" THEN SplitOn(SubSeq(b, 1, Len(b) - 1), "\n")
    ELSE SplitOn(b, "\n")

AliveText == <<":", "A", "L", "I", "V", "E">>
DownText == <<":", "D", "O", "W", "N">>
NotFoundText ==
    <<"n", "o", "d", "e", "s", ".", "t", "x", "t", " ",
      "n", "o", "t", " ", "f", "o", "u", "n", "d">>
NoneText == <<"N", "o", "n", "e">>

Answered200(r) == pc[r] = "done" /\ resp[r].code = 200

\* the body is the lines <hi>:ALIVE or <hi>:DOWN of hosts hs, in their order
ReportsHosts(body, hs) ==
    LET ls == TextLines(body)
    IN  /\ Len(ls) = Len(hs)
        /\ \A i \in 1..Len(hs) : ls[i] \in {hs[i] \o AliveText, hs[i] \o DownText}

\* C1 as stated: the body of a 200 response holds exactly one line per
\* non-blank line of the file read, "<hi>:ALIVE" or "<hi>:DOWN", in file order,
\* for every N including N = 0.
C1_LinePerHost ==
    \A r \in Slots :
        Answered200(r) => ReportsHosts(resp[r].body, HostsOf(seen[r].lines))

\* C1 amended: for N >= 1 the body holds exactly the N lines "<hi>:ALIVE" or
\* "<hi>:DOWN" in file order, whatever the probe outcomes; for N = 0 the body
\* is one newline, that is one empty line and not zero lines.
C1_LinePerHostOrNewline ==
    \A r \in Slots :
        Answered200(r) =>
            LET hs == HostsOf(seen[r].lines)
            IN  IF hs = <<>> THEN resp[r].body = <<"\n">>
                ELSE ReportsHosts(resp[r].body, hs)

\* two different hosts, the first found down and the second alive
C1_Witness ==
    \E r \in Slots :
        /\ Answered200(r)
        /\ Len(HostsOf(seen[r].lines)) = 2
        /\ HostsOf(seen[r].lines)[1] # HostsOf(seen[r].lines)[2]
        /\ pings[r][1].result.t = "None"
        /\ pings[r][2].result.t = "float"

\* C2: a host is reported ALIVE only if its probe got a reply; every other
\* outcome of the probe (timeout, error) reports it DOWN, and no outcome turns
\* the response into an HTTP error.
C2_AliveOnlyOnReply ==
    \A r \in Slots :
        /\ \A i \in 1..Len(pings[r]) :
              /\ i <= Len(status[r])
              /\ status[r][i] =
                    pings[r][i].dest
                        \o (IF pings[r][i].result.t = "float"
                            THEN AliveText ELSE DownText)
        /\ (pc[r] = "done" /\ pings[r] # <<>>) => resp[r].code = 200

\* C3: when the file is absent at the existence check, the response is 500
\* with body "nodes.txt not found" and the call has issued no probe; this is
\* so for every call, so repeated calls get the same response.
C3_AbsentFile ==
    \A r \in Slots :
        (pc[r] = "done" /\ ~existed[r]) =>
            /\ resp[r] = [code |-> 500, body |-> NotFoundText]
            /\ pings[r] = <<>>

\* a call answered while the file is absent
C3_Witness ==
    \E r \in Slots : pc[r] = "done" /\ ~existed[r] /\ ~file.exists /\ resp[r].code = 500

\* the text before the last ":" of an output line
HostPart(l) ==
    SubSeq(l, 1, Greatest({i \in 1..Len(l) : l[i] = ":"}) - 1)

\* blank lines give no probe and no output line, the other lines are probed
\* and printed without the whitespace around them
SkipsBlanksAndTrims(r) ==
    LET hs == HostsOf(seen[r].lines)
        printed == SelectSeq(TextLines(resp[r].body), LAMBDA l : l # <<>>)
    IN  /\ [i \in 1..Len(pings[r]) |-> pings[r][i].dest] = hs
        /\ Len(printed) = Len(hs)
        /\ \A i \in 1..Len(printed) :
              /\ HostPart(printed[i]) = hs[i]
              /\ hs[i][1] \notin Blank
              /\ hs[i][Len(hs[i])] \notin Blank

OnlyBlankLines(lines) == \A i \in 1..Len(lines) : IsBlankLine(lines[i])

\* C4 as stated: blank and whitespace-only lines give no output line and no
\* probe, the other lines are trimmed before probing and printing, and a file
\* of blank lines only yields an empty body.
C4_BlankLinesEmptyBody ==
    \A r \in Slots :
        Answered200(r) =>
            /\ SkipsBlanksAndTrims(r)
            /\ (seen[r].lines # <<>> /\ OnlyBlankLines(seen[r].lines)) =>
                   resp[r].body = <<>>

\* C4 amended: the same, but a file of blank lines only (or an empty file)
\* yields the body "\n", a single newline, not the empty body.
C4_BlankLinesNewlineBody ==
    \A r \in Slots :
        Answered200(r) =>
            /\ SkipsBlanksAndTrims(r)
            /\ OnlyBlankLines(seen[r].lines) => resp[r].body = <<"\n">>

\* a file with a blank line and a host with whitespace around it, answered
C4_Witness ==
    \E r \in Slots :
        /\ Answered200(r)
        /\ \E i \in 1..Len(seen[r].lines) : IsBlankLine(seen[r].lines[i])
        /\ \E i \in 1..Len(seen[r].lines) :
              /\ ~IsBlankLine(seen[r].lines[i])
              /\ seen[r].lines[i][1] \in Blank
              /\ Len(Trimmed(seen[r].lines[i])) + 1 < Len(seen[r].lines[i])
        /\ Len(pings[r]) = 1

IsDigit(c) == \E d \in 1..10 : Digits[d] = c
DigitValue(c) == (CHOOSE d \in 1..10 : Digits[d] = c) - 1
AllDigits(s) == s # <<>> /\ \A i \in 1..Len(s) : IsDigit(s[i])

RECURSIVE TextToInt(_)
TextToInt(s) ==
    IF s = <<>> THEN 0
    ELSE 10 * TextToInt(SubSeq(s, 1, Len(s) - 1)) + DigitValue(s[Len(s)])

EchoAnswered(r) == epc[r] = "done"

\* the space-separated fields of the only line of an echo body
EchoFields(body) == SplitOn(TextLines(body)[1], " ")

\* HH:MM:SS of the clock value
IsClockText(s, clock) ==
    /\ Len(s) = 8
    /\ s[3] = ":" /\ s[6] = ":"
    /\ AllDigits(SubSeq(s, 1, 2)) /\ TextToInt(SubSeq(s, 1, 2)) = clock.h
    /\ AllDigits(SubSeq(s, 4, 5)) /\ TextToInt(SubSeq(s, 4, 5)) = clock.m
    /\ AllDigits(SubSeq(s, 7, 8)) /\ TextToInt(SubSeq(s, 7, 8)) = clock.s

\* <client_ip>:<client_port>, a missing part rendered as the text None
IsPeerText(s, peer) ==
    LET parts == SplitOn(s, ":")
    IN  /\ Len(parts) = 2
        /\ parts[1] = (IF peer.addr.t = "None" THEN NoneText ELSE peer.addr.v)
        /\ IF peer.port.t = "None" THEN parts[2] = NoneText
           ELSE AllDigits(parts[2]) /\ TextToInt(parts[2]) = peer.port.v

\* C5: every echo response is 200 with exactly one newline-terminated line
\* "<HH:MM:SS> <client_ip>:<client_port> -- <local_ip> (<hostname>) <rand>",
\* rand being the request's draw with 0 <= rand <= 100, and a missing remote
\* port is printed as the placeholder None instead of failing the handler.
C5_EchoLine ==
    \A r \in Slots :
        EchoAnswered(r) =>
            LET body == eresp[r].body
                f == EchoFields(body)
            IN  /\ eresp[r].code = 200
                /\ body # <<>> /\ body[Len(body)] = "\n"
                /\ Len(TextLines(body)) = 1
                /\ Len(f) = 6
                /\ IsClockText(f[1], env[r].clock)
                /\ IsPeerText(f[2], env[r].peer)
                /\ f[3] = <<"-", "-">>
                /\ f[4] # <<>>
                /\ Len(f[5]) >= 3 /\ f[5][1] = "(" /\ f[5][Len(f[5])] = ")"
                /\ AllDigits(f[6]) /\ Len(f[6]) <= 3
                /\ TextToInt(f[6]) = env[r].draw
                /\ 0 <= TextToInt(f[6]) /\ TextToInt(f[6]) <= 100

\* a request without remote port, answered with the largest draw
C5_Witness ==
    \E r \in Slots :
        /\ EchoAnswered(r)
        /\ env[r].peer.port.t = "None"
        /\ env[r].draw = 100
        /\ eresp[r].code = 200

\* the "<local_ip> (<hostname>)" part of an echo body
LocalPart(body) == <<EchoFields(body)[4], EchoFields(body)[5]>>

\* C6: the globals hold what was resolved when the process started, whatever
\* the machine's address is now, and the "<local_ip> (<hostname>)" part of
\* every response is that value, so it is the same in all responses of a run.
C6_LocalPartStable ==
    /\ service = "service" => (h_name = boot.name /\ IP_address = boot.ip)
    /\ \A r \in Slots :
          EchoAnswered(r) =>
              LocalPart(eresp[r].body) = <<boot.ip, <<"(">> \o boot.name \o <<")">>>>
    /\ \A r, q \in Slots :
          (EchoAnswered(r) /\ EchoAnswered(q)) =>
              LocalPart(eresp[r].body) = LocalPart(eresp[q].body)

\* two requests answered with different draws, the machine's address being
\* no longer the one resolved at start
C6_Witness ==
    /\ sysAddr.ip # boot.ip
    /\ \A r \in Slots : EchoAnswered(r)
    /\ env[1].draw # env[2].draw
    /\ eresp[1].body # eresp[2].body

\* C7: the hosts a request works on, and the hosts of its 200 response, are
\* those of the file as it was when this request opened it; an earlier
\* request's content, or the file as it is now, plays no part.
C7_FreshRead ==
    \A r \in Slots :
        /\ (pc[r] = "loop" \/ Answered200(r)) =>
              /\ seen[r].exists
              /\ nodes[r] = HostsOf(seen[r].lines)
        /\ Answered200(r) =>
              LET printed == SelectSeq(TextLines(resp[r].body), LAMBDA l : l # <<>>)
              IN  [i \in 1..Len(printed) |-> HostPart(printed[i])]
                      = HostsOf(seen[r].lines)

\* two requests answered from two different contents of the file, which has
\* been deleted since
C7_Witness ==
    /\ \A r \in Slots : Answered200(r) /\ nodes[r] # <<>>
    /\ nodes[1] # nodes[2]
    /\ ~file.exists

\* the response node_status() gives when run alone on what call r was given:
\* the answer of the existence check, the file as opened, the ping results
node_status_alone(r) ==
    IF ~existed[r] THEN [code |-> 500, body |-> NOT_FOUND]
    ELSE IF ~seen[r].exists THEN [code |-> 500, body |-> INTERNAL_SERVER_ERROR]
    ELSE LET ns == ReadNodes(seen[r].lines)
         IN  [code |-> 200,
              body |-> body_of([i \in 1..Len(ns) |->
                                   status_line(ns[i], pings[r][i].result)])]

\* the response index() gives when run alone on what call r was given
index_alone(r) ==
    [code |-> 200,
     body |-> echo_line([host |-> boot.ip,
                         client_ip |-> env[r].peer.addr,
                         client_port |-> str(env[r].peer.port),
                         Time |-> strftime(env[r].clock),
                         rand |-> str(PyInt(env[r].draw))])]

\* C8: with the steps of two requests interleaved in every way, each request's
\* locals and response are those of the same request run alone on the same
\* file content, probe outcomes, clock value and random draw.
C8_NoInterference ==
    \A r \in Slots :
        /\ pc[r] = "loop" =>
              /\ nodes[r] = ReadNodes(seen[r].lines)
              /\ Len(status[r]) = idx[r] /\ Len(pings[r]) = idx[r]
              /\ status[r] = [i \in 1..idx[r] |->
                                 status_line(nodes[r][i], pings[r][i].result)]
        /\ pc[r] = "done" => resp[r] = node_status_alone(r)
        /\ epc[r] = "done" => eresp[r] = index_alone(r)

\* both calls are inside the loop, each having pinged its own host
C8_Witness ==
    /\ \A r \in Slots : pc[r] = "loop" /\ idx[r] = 1
    /\ nodes[1] # nodes[2]
    /\ status[1] # status[2]
    /\ pings[1][1].result # pings[2][1].result

\* C9: the calls of ping() of a request are its hosts up to the loop's
\* position, one call per host in the list's order, each with timeout 1; the
\* loop never passes the end of the list, and the 200 response is given after
\* exactly one ping per host.
C9_OnePingPerHost ==
    \A r \in Slots :
        /\ idx[r] <= Len(nodes[r])
        /\ Len(pings[r]) = idx[r]
        /\ \A i \in 1..Len(pings[r]) :
              /\ i <= Len(nodes[r])
              /\ pings[r][i].dest = nodes[r][i]
              /\ pings[r][i].timeout = 1
        /\ Answered200(r) => Len(pings[r]) = Len(nodes[r])
        /\ (pc[r] = "loop" /\ idx[r] = Len(nodes[r])) =>
              ENABLED node_status_return(r)

\* a two-host request answered, the first ping timed out and was not repeated
C9_Witness ==
    \E r \in Slots :
        /\ Answered200(r)
        /\ Len(nodes[r]) = 2
        /\ Len(pings[r]) = 2
        /\ pings[r][1].result.t = "None"

\* C10: every finished request has one of two responses, 200 with the host
\* lines or 500 with body "nodes.txt not found", also when the file is deleted
\* between the existence check and the open.
C10_TwoResponsesOnly ==
    \A r \in Slots :
        pc[r] = "done" =>
            \/ resp[r].code = 200
            \/ resp[r] = [code |-> 500, body |-> NotFoundText]

====
